---- MODULE Spec2Model ----
(***************************************************************************)
(* A model of ndhook (src/main.rs): a webhook server that, on a "profile"  *)
(* comment from an allow-listed commenter, builds the pull request's head  *)
(* in a container, uploads the artifact to the profiling service, waits    *)
(* for the profile and posts the result as a pull-request comment.         *)
(*                                                                         *)
(* Strings are sequences of one-character strings, so that comparison,     *)
(* lower-casing, formatting and concatenation are computed as the code     *)
(* computes them.  File-system paths are sequences of path components.     *)
(***************************************************************************)
EXTENDS Integers, Sequences, FiniteSets, TLC

\* Number of inbound POST requests the model lets the server receive; each
\* request owns one thread slot (the thread handle_post may spawn for it).
MaxRequests == 1

\* Largest number of scenario outcomes in a profile result.
MaxProfiles == 2

\* The timeout, in seconds, handed to wait_for_profile.
WaitTimeoutSecs == 1200

-----------------------------------------------------------------------------
(* Strings *)

UpperCase ==
    <<"A", "B", "C", "D", "E", "F", "G", "H", "I", "J", "K", "L", "M", "N", "O", "P",
      "Q", "R", "S", "T", "U", "V", "W", "X", "Y", "Z">>

LowerCase ==
    <<"a", "b", "c", "d", "e", "f", "g", "h", "i", "j", "k", "l", "m", "n", "o", "p",
      "q", "r", "s", "t", "u", "v", "w", "x", "y", "z">>

\* char::to_lowercase on the ASCII letters the model uses.
LowerChar(c) ==
    IF \E i \in DOMAIN UpperCase : UpperCase[i] = c
    THEN LowerCase[CHOOSE i \in DOMAIN UpperCase : UpperCase[i] = c]
    ELSE c

\* A variant of to_lowercase that leaves the string as it is.
to_lowercase_identity(s) == s

\* str::to_lowercase.
to_lowercase(s) == [i \in 1..Len(s) |-> LowerChar(s[i])]

Digits == <<"0", "1", "2", "3", "4", "5", "6", "7", "8", "9">>

\* Display of a non-negative integer ("{}" in format!).
RECURSIVE FormatInt(_)
FormatInt(n) ==
    IF n < 10 THEN <<Digits[n + 1]>>
    ELSE FormatInt(n \div 10) \o <<Digits[(n % 10) + 1]>>

\* TRUE iff `pat` occurs in `s` starting at position i.
OccursAt(s, pat, i) ==
    /\ i + Len(pat) - 1 <= Len(s)
    /\ \A k \in 1..Len(pat) : s[i + k - 1] = pat[k]

-----------------------------------------------------------------------------
(* serde_json::Value *)

Null == [t |-> "null"]
JStr(s) == [t |-> "string", s |-> s]
JNum(n) == [t |-> "number", n |-> n]
JArr(a) == [t |-> "array", a |-> a]
JObj(f) == [t |-> "object", f |-> f]

\* Value's Index<&str>: Null unless the value is an object holding the key.
Index(v, key) ==
    IF v.t = "object" /\ key \in DOMAIN v.f THEN v.f[key] ELSE Null

IsString(v) == v.t = "string"

-----------------------------------------------------------------------------
(* The literals of the program *)

ProfileKeyword ==
    <<"p", "r", "o", "f", "i", "l", "e">>

\* The timeout message in the wording of the specification.
SpecTimeoutMessage ==
    <<"T", "i", "m", "e", "o", "u", "t", " ", "w", "h", "i", "l", "e", " ", "w", "a",
      "i", "t", "i", "n", "g", " ", "f", "o", "r", " ", "p", "r", "o", "f", "i", "l",
      "i", "n", "g", " ", "t", "o", " ", "c", "o", "m", "p", "l", "e", "t", "e", ".">>

\* Line 240.
TimeoutComment ==
    <<"T", "i", "m", "e", "o", "u", "t", " ", "w", "h", "i", "l", "e", " ", "w", "a",
      "i", "t", "i", "n", "g", " ", "f", "o", "r", " ", "N", "D", " ", "t", "o", " ",
      "c", "o", "m", "p", "l", "e", "t", "e", " ", "p", "r", "o", "f", "i", "l", "i",
      "n", "g", " ", "t", "h", "e", " ", "a", "p", "p", "l", "i", "c", "a", "t", "i",
      "o", "n", ".">>

\* The fetch-failure message in the wording of the specification.
SpecFetchFailedMessage ==
    <<"F", "a", "i", "l", "e", "d", " ", "t", "o", " ", "r", "e", "t", "r", "i", "e",
      "v", "e", " ", "p", "r", "o", "f", "i", "l", "i", "n", "g", " ", "r", "e", "s",
      "u", "l", "t", "s", ".">>

\* Line 257.
FetchFailedComment ==
    <<"F", "a", "i", "l", "e", "d", " ", "t", "o", " ", "g", "e", "t", " ", "t", "h",
      "e", " ", "r", "e", "s", "u", "l", "t", "s", " ", "o", "f", " ", "t", "h", "e",
      " ", "p", "r", "o", "f", "i", "l", "e", " ", "f", "r", "o", "m", " ", "N", "D",
      ".">>

\* "\\n" in the source: a backslash followed by the letter n, which is the
\* JSON escape of a line break inside the body the comment is posted in.
RowTerminator ==
    <<"\\", "n">>

HeaderLine ==
    <<"S", "c", "e", "n", "a", "r", "i", "o", " ", "|", " ", "S", "t", "a", "t", "u",
      "s", " ", "|", " ", "T", "i", "m", "e", " ", "(", "m", "s", ")">>

SeparatorLine ==
    <<"-", "-", "-", "-", "-", "-", "-", "-", "-", "|", "-", "-", "-", "-", "-", "-",
      "-", "-", "|", "-", "-", "-", "-", "-", "-", "-", "-", "-", "-">>

TableHeader == HeaderLine \o RowTerminator

TableSeparator == SeparatorLine \o RowTerminator

CellSeparator ==
    <<" ", "|", " ">>

BodyPrefix ==
    <<"{", " ", "\"", "b", "o", "d", "y", "\"", ":", " ", "\"">>

BodySuffix ==
    <<"\"", " ", "}">>

\* The mode 0770 of the specification: owner and group everything, others
\* nothing.
SpecWorkspaceMode == <<7, 7, 0>>

\* The mode handed to set_permissions: 0o733, as its three octal digits
\* (owner, group, others).
ArtifactAreaMode == <<7, 3, 3>>

\* The mode TempDir::new leaves on the directory it creates (mkdir under the
\* usual umask).
CreatedDirMode == <<7, 5, 5>>

ArtifactSuffix ==
    <<"fenixNightly", "app-geckoNightly-armeabi-v7a-fenixNightly-unsigned.apk">>

GitKey == <<"g", "i", "t", "_", "k", "e", "y">>

NdKey == <<"n", "d", "_", "k", "e", "y">>

-----------------------------------------------------------------------------
(* The inputs the environment can hand to the program *)

Str_U == <<"U">>
Str_C == <<"C">>
Str_ALICE == <<"A", "L", "I", "C", "E">>
Str_Alice == <<"A", "l", "i", "c", "e">>
Str_bob == <<"b", "o", "b">>
Str_Profile == <<"P", "r", "o", "f", "i", "l", "e">>
Str_profile_space == <<"p", "r", "o", "f", "i", "l", "e", " ">>
Str_sha == <<"a", "b", "c", "1", "2", "3">>
Str_clone == <<"h", "t", "t", "p", "s", ":", "/", "/", "x", "/", "y", ".", "g", "i", "t">>
\* A clone URL holding a NUL character (JSON "\u0000").
Str_clone_nul == <<"x", "NUL", "y">>
Str_job == <<"J">>

\* A document of text: JSON text (json: the value it parses to) or other text.
JsonText(v) == [json |-> v, pct |-> FALSE]
PctJsonText(v) == [json |-> v, pct |-> TRUE]
PlainText(t) == [text |-> t]
\* One byte that is no valid UTF-8, raw or percent-encoded (%FF).
BadByte(pct) == [byte |-> "FF", pct |-> pct]

IsJsonText(tok) == "json" \in DOMAIN tok

\* The web hook's notification.
Notification(pr_url, comments_url, body, login) ==
    JObj([issue |-> JObj([pull_request |-> JObj([url |-> pr_url]),
                          comments_url |-> comments_url]),
          comment |-> JObj([body |-> body, user |-> JObj([login |-> login])])])

N_ok == Notification(JStr(Str_U), JStr(Str_C), JStr(ProfileKeyword), JStr(Str_ALICE))
N_case == Notification(JStr(Str_U), JStr(Str_C), JStr(Str_Profile), JStr(Str_ALICE))
N_space == Notification(JStr(Str_U), JStr(Str_C), JStr(Str_profile_space), JStr(Str_ALICE))
N_bob == Notification(JStr(Str_U), JStr(Str_C), JStr(ProfileKeyword), JStr(Str_bob))
N_empty_login == Notification(JStr(Str_U), JStr(Str_C), JStr(ProfileKeyword), JStr(<<>>))
N_no_pr_url == Notification(Null, JStr(Str_C), JStr(ProfileKeyword), JStr(Str_ALICE))
N_no_comments_url == Notification(JStr(Str_U), JNum(1), JStr(ProfileKeyword), JStr(Str_ALICE))
N_no_body == JObj([issue |-> JObj([pull_request |-> JObj([url |-> JStr(Str_U)]),
                                   comments_url |-> JStr(Str_C)])])
N_no_login == Notification(JStr(Str_U), JStr(Str_C), JStr(ProfileKeyword), JArr(<<>>))

Notifications ==
    {N_ok, N_case, N_space, N_bob, N_empty_login, N_no_pr_url, N_no_comments_url,
     N_no_body, N_no_login, JNum(1)}

\* Request bodies: payload=<percent-encoded JSON>, the same without the
\* prefix or without the encoding, text that is no JSON, bytes that are no
\* UTF-8, and a body that cannot be read.
Bodies ==
    {[readable |-> TRUE, bytes |-> <<PlainText("payload="), PctJsonText(n)>>] :
        n \in Notifications}
    \cup {[readable |-> TRUE, bytes |-> <<JsonText(N_no_login)>>],
          [readable |-> TRUE, bytes |-> <<PlainText("payload="), PlainText("hello")>>],
          [readable |-> TRUE, bytes |-> <<PlainText("payload="), PctJsonText(N_ok),
                                          PlainText("}")>>],
          [readable |-> TRUE, bytes |-> <<>>],
          [readable |-> TRUE, bytes |-> <<PlainText("payload="), BadByte(TRUE)>>],
          [readable |-> TRUE, bytes |-> <<BadByte(FALSE), JsonText(N_ok)>>],
          [readable |-> FALSE, bytes |-> <<>>]}

\* ./profilers.json
ConfigFiles ==
    {[exists |-> FALSE, content |-> PlainText("")],
     [exists |-> TRUE, content |-> PlainText("alice")],
     [exists |-> TRUE, content |-> JsonText(JArr(<<JStr(Str_Alice), JNum(1)>>))],
     [exists |-> TRUE, content |-> JsonText(JArr(<<JStr(Str_Alice)>>))]}

\* The answer to the GET of the pull request's URL.
PullInformation(sha, clone_url) ==
    JObj([head |-> JObj([sha |-> sha, repo |-> JObj([clone_url |-> clone_url])])])

MetadataResponses ==
    {[get |-> "err", text |-> "err", body |-> PlainText("")],
     [get |-> "ok", text |-> "err", body |-> PlainText("")],
     [get |-> "ok", text |-> "ok", body |-> PlainText("<html>")],
     [get |-> "ok", text |-> "ok", body |-> JsonText(PullInformation(Null, JStr(Str_clone)))],
     [get |-> "ok", text |-> "ok", body |-> JsonText(PullInformation(JStr(Str_sha), JNum(1)))],
     [get |-> "ok", text |-> "ok", body |-> JsonText(PullInformation(JStr(Str_sha), JStr(Str_clone)))],
     [get |-> "ok", text |-> "ok",
      body |-> JsonText(PullInformation(JStr(Str_sha), JStr(Str_clone_nul)))]}

\* Result<ExitStatus> of Command::status.
Exited(code) == [kind |-> "exited", code |-> code]
Signaled(sig) == [kind |-> "signaled", signal |-> sig]
\* raw: <<errno>>, or <<>> for an error that carries no OS error code.
SpawnError(raw) == [kind |-> "error", raw_os_error |-> raw]

\* The scenario outcomes the profiling service can report.
ScenarioPool ==
    <<[name |-> <<"c", "o", "l", "d", "_", "s", "t", "a", "r", "t">>,
       status |-> <<"O", "K">>, time |-> 412],
      [name |-> <<"w", "a", "r", "m">>, status |-> <<"F", "A", "I", "L">>, time |-> 0],
      [name |-> <<"h", "o", "t">>, status |-> <<"O", "K">>, time |-> 70]>>

Scenario(i) == ScenarioPool[((i - 1) % Len(ScenarioPool)) + 1]

\* Profile results of up to MaxProfiles outcomes, in both orders.
ProfileResults ==
    UNION {{[i \in 1..n |-> Scenario(i)], [i \in 1..n |-> Scenario(n + 1 - i)]} :
        n \in 0..MaxProfiles}

-----------------------------------------------------------------------------
(* The program's functions *)

\* serde_json::from_str on one document of text, and on a whole text.
ParsesAsJson(tok) == IsJsonText(tok) /\ ~tok.pct

\* A parser that accepts every text.
from_str_lenient(text) ==
    [ok |-> TRUE,
     value |-> IF Len(text) >= 1 /\ IsJsonText(text[1]) THEN text[1].json ELSE Null]

from_str(text) ==
    IF Len(text) = 1 /\ ParsesAsJson(text[1])
    THEN [ok |-> TRUE, value |-> text[1].json]
    ELSE [ok |-> FALSE, value |-> Null]

\* percent_encoding::percent_decode.
percent_decode(bytes) ==
    [i \in 1..Len(bytes) |->
        IF "pct" \in DOMAIN bytes[i] THEN [bytes[i] EXCEPT !.pct = FALSE] ELSE bytes[i]]

\* decode_utf8 succeeds iff no byte sequence of the text is invalid UTF-8.
IsUtf8(bytes) == \A i \in 1..Len(bytes) : "byte" \notin DOMAIN bytes[i]

\* String::replace("payload=", "").
RemovePayloadPrefix(text) == SelectSeq(text, LAMBDA tok : tok # PlainText("payload="))

\* parse_body_bytes: panicked (the unwrap of decode_utf8), or the result of
\* serde_json::from_str.
parse_body_bytes(bytes) ==
    LET decoded == percent_decode(bytes)
    IN  IF ~IsUtf8(decoded)
        THEN [panicked |-> TRUE, ok |-> FALSE, value |-> Null]
        ELSE LET parsed == from_str(RemovePayloadPrefix(decoded))
             IN  [panicked |-> FALSE, ok |-> parsed.ok, value |-> parsed.value]

\* A loader that keeps the strings of an array and skips its other entries.
profilers_from_file_skipping(file) ==
    IF file.exists /\ ParsesAsJson(file.content) /\ file.content.json.t = "array"
    THEN LET strings == SelectSeq(file.content.json.a, IsString)
         IN  [i \in 1..Len(strings) |-> strings[i].s]
    ELSE <<>>

\* profilers_from_file: the file's logins, or the empty list.
profilers_from_file(file) ==
    IF /\ file.exists
       /\ ParsesAsJson(file.content)
       /\ file.content.json.t = "array"
       /\ \A i \in 1..Len(file.content.json.a) : IsString(file.content.json.a[i])
    THEN [i \in 1..Len(file.content.json.a) |-> file.content.json.a[i].s]
    ELSE <<>>

\* main: the allow-list of the server state, lower-cased.
lc_profilers(file) ==
    LET loaded == profilers_from_file(file)
    IN  [i \in 1..Len(loaded) |-> to_lowercase(loaded[i])]

\* Vec::contains.
Contains(vec, x) == \E i \in 1..Len(vec) : vec[i] = x

\* An extraction that does not look at the commenter before the GET.
try_from_fields_unchecked_login(notification) ==
    LET pr_url == Index(Index(Index(notification, "issue"), "pull_request"), "url")
        comments_url == Index(Index(notification, "issue"), "comments_url")
        comment == Index(Index(notification, "comment"), "body")
        commenter == Index(Index(Index(notification, "comment"), "user"), "login")
    IN  IF ~IsString(pr_url) THEN [ok |-> FALSE, err |-> "Oops, couldn't find a PR url."]
        ELSE IF ~IsString(comments_url)
        THEN [ok |-> FALSE, err |-> "Oops, couldn't find a comments url."]
        ELSE IF ~IsString(comment)
        THEN [ok |-> FALSE, err |-> "Oops, couldn't find the comment body."]
        ELSE [ok |-> TRUE, pr_url |-> pr_url.s, comments_url |-> comments_url.s,
              comment |-> comment.s,
              commenter |-> IF IsString(commenter) THEN commenter.s ELSE <<>>]

\* PullRequestComment::try_from, up to the GET: the four strings of the
\* notification, or the error.
try_from_fields(notification) ==
    LET pr_url == Index(Index(Index(notification, "issue"), "pull_request"), "url")
        comments_url == Index(Index(notification, "issue"), "comments_url")
        comment == Index(Index(notification, "comment"), "body")
        commenter == Index(Index(Index(notification, "comment"), "user"), "login")
    IN  IF ~IsString(pr_url) THEN [ok |-> FALSE, err |-> "Oops, couldn't find a PR url."]
        ELSE IF ~IsString(comments_url)
        THEN [ok |-> FALSE, err |-> "Oops, couldn't find a comments url."]
        ELSE IF ~IsString(comment)
        THEN [ok |-> FALSE, err |-> "Oops, couldn't find the comment body."]
        ELSE IF ~IsString(commenter)
        THEN [ok |-> FALSE, err |-> "Oops, couldn't find the commenter."]
        ELSE [ok |-> TRUE, pr_url |-> pr_url.s, comments_url |-> comments_url.s,
              comment |-> comment.s, commenter |-> commenter.s]

\* An extraction that does not look at the head's sha.
try_from_response_unchecked_sha(fields, response) ==
    IF response.get # "ok" \/ response.text # "ok"
    THEN [ok |-> FALSE, err |-> "Oops, couldn't download PR information"]
    ELSE LET parsed == from_str(<<response.body>>)
             head_sha == Index(Index(parsed.value, "head"), "sha")
             clone_url == Index(Index(Index(parsed.value, "head"), "repo"), "clone_url")
         IN  IF ~parsed.ok THEN [ok |-> FALSE, err |-> "Oops, couldn't parse PR information"]
             ELSE IF ~IsString(clone_url)
             THEN [ok |-> FALSE, err |-> "Oops, couldn't get the PR head's clone url."]
             ELSE [ok |-> TRUE,
                   url |-> fields.comments_url,
                   clone_url |-> clone_url.s,
                   head_sha |-> IF IsString(head_sha) THEN head_sha.s ELSE <<>>,
                   comment |-> fields.comment,
                   commenter |-> fields.commenter]

\* PullRequestComment::try_from, from the answer to the GET on.
try_from_response(fields, response) ==
    IF response.get # "ok" \/ response.text # "ok"
    THEN [ok |-> FALSE, err |-> "Oops, couldn't download PR information"]
    ELSE LET parsed == from_str(<<response.body>>)
             head_sha == Index(Index(parsed.value, "head"), "sha")
             clone_url == Index(Index(Index(parsed.value, "head"), "repo"), "clone_url")
         IN  IF ~parsed.ok THEN [ok |-> FALSE, err |-> "Oops, couldn't parse PR information"]
             ELSE IF ~IsString(clone_url)
             THEN [ok |-> FALSE, err |-> "Oops, couldn't get the PR head's clone url."]
             ELSE IF ~IsString(head_sha)
             THEN [ok |-> FALSE, err |-> "Oops, couldn't get the PR head's sha."]
             ELSE [ok |-> TRUE,
                   url |-> fields.comments_url,
                   clone_url |-> clone_url.s,
                   head_sha |-> head_sha.s,
                   comment |-> fields.comment,
                   commenter |-> fields.commenter]

\* ToExitCode::to_exit_code: the exit code, the signal, or the OS error code;
\* panics (the unwrap) on an error that carries no OS error code.
to_exit_code(result) ==
    IF result.kind = "exited" THEN [panicked |-> FALSE, code |-> result.code]
    ELSE IF result.kind = "signaled" THEN [panicked |-> FALSE, code |-> result.signal]
    ELSE IF Len(result.raw_os_error) = 1
    THEN [panicked |-> FALSE, code |-> result.raw_os_error[1]]
    ELSE [panicked |-> TRUE, code |-> 0]

\* The comparison of the comment with the command, ignoring letter case.
IsCommand_ignoring_case(comment) == to_lowercase(comment) = ProfileKeyword

\* take_action, line 164: the comment is the command.
IsCommand(comment) == comment = ProfileKeyword

\* An allow-list check that admits everybody.
IsProfiler_anyone(allowed, commenter) == TRUE

\* take_action, line 169: the commenter is on the allow-list.
IsProfiler(allowed, commenter) == Contains(allowed, to_lowercase(commenter))

\* format!("{} | {} | {}\\n", name, status, time).
FormatRow(p) ==
    p.name \o CellSeparator \o p.status \o CellSeparator \o FormatInt(p.time)
        \o RowTerminator

\* The rows of a result, last outcome first.
RECURSIVE FormatRows_reversed(_)
FormatRows_reversed(profiles) ==
    IF profiles = <<>> THEN <<>>
    ELSE FormatRows_reversed(Tail(profiles)) \o FormatRow(Head(profiles))

\* The loop of lines 248-255: one push_str per outcome, in the result's order.
RECURSIVE FormatRows(_)
FormatRows(profiles) ==
    IF profiles = <<>> THEN <<>>
    ELSE FormatRow(Head(profiles)) \o FormatRows(Tail(profiles))

\* Lines 246-255: the comment of a fetched result.
FormatTable(profiles) == TableHeader \o TableSeparator \o FormatRows(profiles)

\* The body of the comment POST: format!("{{ \"body\": \"{}\" }}", comment_string).
PostBody(comment_string) == BodyPrefix \o comment_string \o BodySuffix

\* Command::status fails without an OS error code iff an argument holds a NUL.
HasNul(s) == \E i \in 1..Len(s) : s[i] = "NUL"

-----------------------------------------------------------------------------
(* State *)

VARIABLES
    profilers_file,  \* the content of ./profilers.json when main read it
    profilers,       \* ServerState.profilers
    requests,        \* the bodies of the requests received so far
    responses,       \* what handle_post answered, one entry per request
    runs             \* the take_action thread of each request

vars == <<profilers_file, profilers, requests, responses, runs>>

\* The thread slots, one per request.
Runs == DOMAIN runs

\* The directory TempDir::new makes for run r.
TempPath(r) == <<"tmp", "prefix." \o ToString(r)>>

\* A thread that has not been spawned.
\* pc: where the thread is; from: the state a finished thread ended in;
\* build_result: the local of lines 195-214, dead after them; calls: the
\* outbound calls made so far, each with its outcome.
NotSpawned ==
    [pc |-> "NotSpawned",
     from |-> "-",
     notification |-> Null,
     pull_request |-> [ok |-> FALSE],
     temp_dir |-> [state |-> "none"],
     profile_url |-> <<>>,
     build_result |-> <<>>,
     comment_string |-> <<>>,
     calls |-> <<>>]

\* TempDir's Drop: the directory is removed when the value goes out of scope.
Drop(temp_dir) ==
    IF temp_dir.state = "exists" THEN [temp_dir EXCEPT !.state = "removed"] ELSE temp_dir

\* A return that leaves the directory behind.
Return_leaking(run, from) ==
    [run EXCEPT !.pc = "Aborted", !.from = from]

\* A return of take_action before the comment is posted.
Return(run, from) ==
    [run EXCEPT !.pc = "Aborted", !.from = from, !.temp_dir = Drop(@)]

-----------------------------------------------------------------------------
(* The steps of take_action, as functions of the thread's state *)

\* An extraction that looks at the command before it sends the GET.
extract_fields_checking_command(run) ==
    LET fields == try_from_fields(run.notification)
    IN  IF fields.ok /\ IsCommand(fields.comment)
        THEN [run EXCEPT !.pc = "Fetching",
                         !.calls = Append(@, [op |-> "GET", to |-> fields.pr_url])]
        ELSE Return(run, "Received")

\* Lines 140-150 and 42-70: the notification's fields, then the GET is sent.
extract_fields(run) ==
    LET fields == try_from_fields(run.notification)
    IN  IF fields.ok
        THEN [run EXCEPT !.pc = "Fetching",
                         !.calls = Append(@, [op |-> "GET", to |-> fields.pr_url])]
        ELSE Return(run, "Received")

\* Lines 70-106 and 143-162: the answer to the GET.
extract_response(run, response) ==
    LET res == try_from_response(try_from_fields(run.notification), response)
    IN  IF res.ok
        THEN [run EXCEPT !.pc = "Extracted", !.pull_request = res]
        ELSE Return(run, "Received")

\* Lines 164-172.
authorize(run, allowed) ==
    IF ~IsCommand(run.pull_request.comment)
    THEN Return(run, "Extracted")
    ELSE IF ~IsProfiler(allowed, run.pull_request.commenter)
    THEN Return(run, "Extracted")
    ELSE [run EXCEPT !.pc = "Authorized"]

\* A workspace step that logs a failure and goes on to the build.
make_workspace_continuing(run, path, outcome) ==
    [run EXCEPT !.pc = "Workspace",
                !.temp_dir =
                    [state |-> IF outcome = "create_failed" THEN "none" ELSE "exists",
                     path |-> path,
                     mode |-> IF outcome = "ok" THEN ArtifactAreaMode ELSE CreatedDirMode]]

\* Lines 174-193. outcome: "create_failed", "chmod_failed" or "ok".
make_workspace(run, path, outcome) ==
    IF outcome = "create_failed"
    THEN Return(run, "Authorized")
    ELSE IF outcome = "chmod_failed"
    THEN Return([run EXCEPT !.temp_dir =
                    [state |-> "exists", path |-> path, mode |-> CreatedDirMode]],
                "Authorized")
    ELSE [run EXCEPT !.pc = "Workspace",
                     !.temp_dir =
                         [state |-> "exists", path |-> path, mode |-> ArtifactAreaMode]]

\* Lines 195-214. result: the Result<ExitStatus> of the docker command.
build(run, result) ==
    LET call == [op |-> "build",
                 volume |-> run.temp_dir.path,
                 clone_url |-> run.pull_request.clone_url,
                 head_sha |-> run.pull_request.head_sha]
        exit == to_exit_code(result)
    IN  IF exit.panicked
        THEN [run EXCEPT !.pc = "Panicked", !.from = "Workspace",
                         !.calls = Append(@, call), !.temp_dir = Drop(@)]
        ELSE [run EXCEPT !.pc = "Built", !.calls = Append(@, call),
                         !.build_result = <<result>>]

\* An upload whose failure is reported in a comment instead of ending the run.
upload_reporting(run, ok) ==
    LET call == [op |-> "upload", path |-> run.temp_dir.path \o ArtifactSuffix,
                 key |-> NdKey, ok |-> ok]
    IN  IF ok
        THEN [run EXCEPT !.pc = "Uploaded", !.calls = Append(@, call),
                         !.build_result = <<>>, !.profile_url = Str_job]
        ELSE [run EXCEPT !.pc = "Reported", !.calls = Append(@, call),
                         !.build_result = <<>>,
                         !.comment_string = <<"U", "p", "l", "o", "a", "d", " ",
                                              "f", "a", "i", "l", "e", "d", ".">>]

\* An upload that is tried a second time when it failed.
upload_retrying(run, ok) ==
    LET call == [op |-> "upload", path |-> run.temp_dir.path \o ArtifactSuffix,
                 key |-> NdKey, ok |-> ok]
    IN  IF ok
        THEN [run EXCEPT !.pc = "Uploaded", !.calls = Append(@, call),
                         !.build_result = <<>>, !.profile_url = Str_job]
        ELSE Return([run EXCEPT !.calls = Append(Append(@, call), call),
                                !.build_result = <<>>],
                    "Built")

\* Lines 216-230.
upload(run, ok) ==
    LET call == [op |-> "upload", path |-> run.temp_dir.path \o ArtifactSuffix,
                 key |-> NdKey, ok |-> ok]
    IN  IF ok
        THEN [run EXCEPT !.pc = "Uploaded", !.calls = Append(@, call),
                         !.build_result = <<>>, !.profile_url = Str_job]
        ELSE Return([run EXCEPT !.calls = Append(@, call), !.build_result = <<>>],
                    "Built")

\* A wait whose failure still goes on to fetch the result.
wait_for_profile_fetching(run, ok) ==
    [run EXCEPT !.pc = "Polled",
                !.calls = Append(@, [op |-> "wait", url |-> run.profile_url,
                                     timeout |-> WaitTimeoutSecs, ok |-> ok])]

\* Lines 232-243.
wait_for_profile(run, ok) ==
    LET call == [op |-> "wait", url |-> run.profile_url, timeout |-> WaitTimeoutSecs,
                 ok |-> ok]
    IN  IF ok
        THEN [run EXCEPT !.pc = "Polled", !.calls = Append(@, call)]
        ELSE [run EXCEPT !.pc = "Reported", !.calls = Append(@, call),
                         !.comment_string = TimeoutComment]

\* A fetch whose failure message is appended to the table header.
get_profile_result_appending(run, result) ==
    LET call == [op |-> "fetch", url |-> run.profile_url, result |-> result]
    IN  IF result.some
        THEN [run EXCEPT !.pc = "Reported", !.calls = Append(@, call),
                         !.comment_string = @ \o FormatTable(result.profiles)]
        ELSE [run EXCEPT !.pc = "Reported", !.calls = Append(@, call),
                         !.comment_string = TableHeader \o FetchFailedComment]

\* Lines 245-260. result: the Option of get_profile_result.
get_profile_result(run, result) ==
    LET call == [op |-> "fetch", url |-> run.profile_url, result |-> result]
    IN  IF result.some
        THEN [run EXCEPT !.pc = "Reported", !.calls = Append(@, call),
                         !.comment_string = @ \o FormatTable(result.profiles)]
        ELSE [run EXCEPT !.pc = "Reported", !.calls = Append(@, call),
                         !.comment_string = FetchFailedComment]

\* A publisher that sends the comment again when the POST failed.
post_comment_retrying(run, ok) ==
    LET call == [op |-> "POST",
                 to |-> run.pull_request.url,
                 authorization |-> <<"t", "o", "k", "e", "n", " ">> \o GitKey,
                 body |-> PostBody(run.comment_string),
                 ok |-> ok]
    IN  [run EXCEPT !.pc = "Done", !.from = "Reported",
                    !.calls = IF ok THEN Append(@, call) ELSE Append(Append(@, call), call),
                    !.temp_dir = Drop(@)]

\* Lines 262-281: the POST, and the end of take_action.
post_comment(run, ok) ==
    LET call == [op |-> "POST",
                 to |-> run.pull_request.url,
                 authorization |-> <<"t", "o", "k", "e", "n", " ">> \o GitKey,
                 body |-> PostBody(run.comment_string),
                 ok |-> ok]
    IN  [run EXCEPT !.pc = "Done", !.from = "Reported",
                    !.calls = Append(@, call),
                    !.temp_dir = Drop(@)]

\* handle_post's answer: the panic of parse_body_bytes unwinds through it,
\* every other path ends in Ok("Success").
Response(read, parsed) ==
    IF read /\ parsed.panicked THEN "panic" ELSE "Success"

\* handle_post, lines 304-313: a thread is spawned iff the body was read and
\* parsed.
Spawns(read, parsed) == read /\ ~parsed.panicked /\ parsed.ok

-----------------------------------------------------------------------------
(* Actions *)

\* main, lines 346-354.
Init ==
    /\ profilers_file \in ConfigFiles
    /\ profilers = lc_profilers(profilers_file)
    /\ requests = <<>>
    /\ responses = <<>>
    /\ runs = [r \in 1..MaxRequests |-> NotSpawned]

\* A step that a thread takes only while no other thread is running, as if
\* take_action held one lock for all threads.
Step_serialized(r, next) ==
    /\ \A q \in Runs \ {r} : runs[q].pc \in {"NotSpawned", "Done", "Aborted", "Panicked"}
    /\ runs' = [runs EXCEPT ![r] = next]
    /\ UNCHANGED <<profilers_file, profilers, requests, responses>>

\* One step of the thread r, which touches no state but its own.
Step(r, next) ==
    /\ runs' = [runs EXCEPT ![r] = next]
    /\ UNCHANGED <<profilers_file, profilers, requests, responses>>

\* handle_post.
HandlePost(body) ==
    /\ Len(requests) < Len(runs)
    /\ LET r == Len(requests) + 1
           parsed == parse_body_bytes(body.bytes)
       IN  /\ requests' = Append(requests, body)
           /\ responses' = Append(responses, Response(body.readable, parsed))
           /\ runs' = IF Spawns(body.readable, parsed)
                      THEN [runs EXCEPT ![r] =
                               [NotSpawned EXCEPT !.pc = "Received",
                                                  !.notification = parsed.value]]
                      ELSE runs
    /\ UNCHANGED <<profilers_file, profilers>>

ExtractFields(r) ==
    /\ runs[r].pc = "Received"
    /\ Step(r, extract_fields(runs[r]))

MetadataResponse(r, response) ==
    /\ runs[r].pc = "Fetching"
    /\ Step(r, extract_response(runs[r], response))

Authorize(r) ==
    /\ runs[r].pc = "Extracted"
    /\ Step(r, authorize(runs[r], profilers))

MakeWorkspace(r, outcome) ==
    /\ runs[r].pc = "Authorized"
    /\ Step(r, make_workspace(runs[r], TempPath(r), outcome))

BuildResults(run) ==
    IF HasNul(run.pull_request.clone_url) \/ HasNul(run.pull_request.head_sha)
    THEN {SpawnError(<<>>)}
    ELSE {Exited(0), Exited(1), Signaled(9), SpawnError(<<2>>)}

Build(r) ==
    /\ runs[r].pc = "Workspace"
    /\ \E result \in BuildResults(runs[r]) : Step(r, build(runs[r], result))

Upload(r, ok) ==
    /\ runs[r].pc = "Built"
    /\ Step(r, upload(runs[r], ok))

WaitForProfile(r, ok) ==
    /\ runs[r].pc = "Uploaded"
    /\ Step(r, wait_for_profile(runs[r], ok))

GetProfileResult(r, result) ==
    /\ runs[r].pc = "Polled"
    /\ Step(r, get_profile_result(runs[r], result))

PostComment(r, ok) ==
    /\ runs[r].pc = "Reported"
    /\ Step(r, post_comment(runs[r], ok))

FetchResults ==
    {[some |-> FALSE, profiles |-> <<>>]}
        \cup {[some |-> TRUE, profiles |-> p] : p \in ProfileResults}

Next ==
    \/ \E body \in Bodies : HandlePost(body)
    \/ \E r \in Runs : ExtractFields(r)
    \/ \E r \in Runs : \E response \in MetadataResponses : MetadataResponse(r, response)
    \/ \E r \in Runs : Authorize(r)
    \/ \E r \in Runs : \E outcome \in {"create_failed", "chmod_failed", "ok"} :
          MakeWorkspace(r, outcome)
    \/ \E r \in Runs : Build(r)
    \/ \E r \in Runs : \E ok \in BOOLEAN : Upload(r, ok)
    \/ \E r \in Runs : \E ok \in BOOLEAN : WaitForProfile(r, ok)
    \/ \E r \in Runs : \E result \in FetchResults : GetProfileResult(r, result)
    \/ \E r \in Runs : \E ok \in BOOLEAN : PostComment(r, ok)

Spec == Init /\ [][Next]_vars

-----------------------------------------------------------------------------
(* Several requests at a time: one thread slot more than in Spec, with the  *)
(* inputs that take a thread through every stage.                           *)

\* A well-formed event of an allow-listed commenter, one of a commenter who
\* is not on the list, and a body that is no JSON.
ConcBodies ==
    {[readable |-> TRUE, bytes |-> <<PlainText("payload="), PctJsonText(N_ok)>>],
     [readable |-> TRUE, bytes |-> <<PlainText("payload="), PctJsonText(N_bob)>>],
     [readable |-> TRUE, bytes |-> <<PlainText("payload="), PlainText("hello")>>]}

\* A GET that fails and one that answers with the pull request's metadata.
ConcResponses ==
    {[get |-> "err", text |-> "err", body |-> PlainText("")],
     [get |-> "ok", text |-> "ok", body |-> JsonText(PullInformation(JStr(Str_sha), JStr(Str_clone)))]}

\* main with an allow-list file that holds ["Alice"].
ConcInit ==
    /\ profilers_file = [exists |-> TRUE, content |-> JsonText(JArr(<<JStr(Str_Alice)>>))]
    /\ profilers = lc_profilers(profilers_file)
    /\ requests = <<>>
    /\ responses = <<>>
    /\ runs = [r \in 1..(MaxRequests + 1) |-> NotSpawned]

ConcNext ==
    \/ \E body \in ConcBodies : HandlePost(body)
    \/ \E r \in Runs : ExtractFields(r)
    \/ \E r \in Runs : \E response \in ConcResponses : MetadataResponse(r, response)
    \/ \E r \in Runs : Authorize(r)
    \/ \E r \in Runs : \E outcome \in {"create_failed", "chmod_failed", "ok"} :
          MakeWorkspace(r, outcome)
    \/ \E r \in Runs : Build(r)
    \/ \E r \in Runs : \E ok \in BOOLEAN : Upload(r, ok)
    \/ \E r \in Runs : \E ok \in BOOLEAN : WaitForProfile(r, ok)
    \/ \E r \in Runs : \E result \in FetchResults : GetProfileResult(r, result)
    \/ \E r \in Runs : \E ok \in BOOLEAN : PostComment(r, ok)

ConcSpec == ConcInit /\ [][ConcNext]_vars

-----------------------------------------------------------------------------
(* Vocabulary of the properties *)

CallsOf(run, op) == {i \in DOMAIN run.calls : run.calls[i].op = op}

HasCall(run, op) == CallsOf(run, op) # {}

\* The run has made no call of the pipeline behind the authorization.
NoPipelineCall(run) ==
    ~HasCall(run, "build") /\ ~HasCall(run, "upload") /\ ~HasCall(run, "POST")

\* The run has made no outbound call at all.
NoCall(run) == run.calls = <<>>

Ended(run) == run.pc \in {"Done", "Aborted", "Panicked"}

\* Two strings that differ at most in the case of their letters.
EqualIgnoringCase(a, b) ==
    /\ Len(a) = Len(b)
    /\ \A i \in 1..Len(a) : LowerChar(a[i]) = LowerChar(b[i])

\* The login matches, case-insensitively, an entry of the allow-list file.
OnAllowList(login) ==
    LET entries == profilers_from_file(profilers_file)
    IN  \E i \in 1..Len(entries) : EqualIgnoringCase(entries[i], login)

\* The body, percent-decoded and without payload=, is one JSON document.
DecodesToJson(body) ==
    LET text == RemovePayloadPrefix(percent_decode(body.bytes))
    IN  /\ body.readable
        /\ IsUtf8(percent_decode(body.bytes))
        /\ Len(text) = 1
        /\ IsJsonText(text[1])

-----------------------------------------------------------------------------
(* Properties *)

\* C1: a run whose extracted comment is not exactly "profile" (case-sensitive,
\* untrimmed) makes no build invocation, no upload and no comment POST,
\* whoever the commenter is and whatever the allow-list holds.
C1_OtherCommentNoPipeline ==
    \A r \in Runs :
        (runs[r].pull_request.ok /\ runs[r].pull_request.comment # ProfileKeyword)
            => NoPipelineCall(runs[r])

\* A run of an allow-listed commenter whose comment is "Profile" or "profile "
\* has been turned away at the authorization.
C1_Witness ==
    \E r \in Runs :
        /\ runs[r].pc = "Aborted" /\ runs[r].from = "Extracted"
        /\ runs[r].pull_request.comment \in {Str_Profile, Str_profile_space}
        /\ OnAllowList(runs[r].pull_request.commenter)

\* C2: a run whose commenter is not, case-insensitively, on the allow-list
\* loaded at startup makes no build, upload or comment POST even when the
\* comment is exactly "profile"; a commenter who differs from an entry of the
\* allow-list only in letter case is admitted.
C2_AllowListIgnoringCase ==
    \A r \in Runs :
        runs[r].pull_request.ok =>
            /\ ~OnAllowList(runs[r].pull_request.commenter) => NoPipelineCall(runs[r])
            /\ (/\ OnAllowList(runs[r].pull_request.commenter)
                /\ runs[r].pull_request.comment = ProfileKeyword)
                   => ~(runs[r].pc = "Aborted" /\ runs[r].from = "Extracted")

\* A run of "bob" with the comment "profile" has been turned away by an
\* allow-list that holds somebody else.
C2_Witness ==
    \E r \in Runs :
        /\ runs[r].pc = "Aborted" /\ runs[r].from = "Extracted"
        /\ runs[r].pull_request.comment = ProfileKeyword
        /\ runs[r].pull_request.commenter = Str_bob
        /\ profilers # <<>>

\* C3: a request whose body does not decode to valid JSON (after the
\* percent-decoding and the removal of payload=) never has a run: its thread
\* is not spawned, so no outbound call and no comment come of it.
C3_NoRunWithoutJson ==
    \A i \in 1..Len(requests) :
        ~DecodesToJson(requests[i]) => (runs[i].pc = "NotSpawned" /\ NoCall(runs[i]))

\* A request whose body was read and is UTF-8 but no JSON has been answered,
\* and no thread was spawned for it.
C3_Witness ==
    \E i \in 1..Len(requests) :
        /\ requests[i].readable
        /\ IsUtf8(percent_decode(requests[i].bytes))
        /\ ~DecodesToJson(requests[i])
        /\ responses[i] = "Success"
        /\ runs[i].pc = "NotSpawned"

-----------------------------------------------------------------------------
(* Vocabulary of the reporting properties *)

UploadSucceeded(run) == \E i \in CallsOf(run, "upload") : run.calls[i].ok

UploadFailed(run) == \E i \in CallsOf(run, "upload") : ~run.calls[i].ok

TimedOut(run) == \E i \in CallsOf(run, "wait") : ~run.calls[i].ok

FetchFailed(run) == \E i \in CallsOf(run, "fetch") : ~run.calls[i].result.some

\* The run came through extraction and authorization.
PassedAuthorization(run) ==
    run.pc \in {"Authorized", "Workspace", "Built", "Uploaded", "Polled", "Reported",
                "Done", "Panicked"}
        \/ (run.pc = "Aborted" /\ run.from \notin {"Received", "Extracted"})

\* issue.comments_url of the run's notification.
CommentsUrl(run) == Index(Index(run.notification, "issue"), "comments_url").s

ContainsText(s, pat) == \E i \in 1..Len(s) : OccursAt(s, pat, i)

\* The report text inside the body of a comment POST.
PublishedText(body) == SubSeq(body, Len(BodyPrefix) + 1, Len(body) - Len(BodySuffix))

\* The lines of a text, each ended by the line-break escape.
RECURSIVE SplitLines(_)
SplitLines(s) ==
    LET breaks == {i \in 1..Len(s) : OccursAt(s, RowTerminator, i)}
    IN  IF s = <<>> THEN <<>>
        ELSE IF breaks = {} THEN <<s>>
        ELSE LET first == CHOOSE i \in breaks : \A j \in breaks : i <= j
             IN  <<SubSeq(s, 1, first - 1)>>
                     \o SplitLines(SubSeq(s, first + Len(RowTerminator), Len(s)))

\* The row "name | status | timeMs" of one outcome.
RowLine(p) ==
    p.name \o <<" ", "|", " ">> \o p.status \o <<" ", "|", " ">> \o FormatInt(p.time)

\* "Timeout while waiting for ND to complete profiling the application."
C6_Literal ==
    <<"T", "i", "m", "e", "o", "u", "t", " ", "w", "h", "i", "l", "e", " ", "w", "a",
      "i", "t", "i", "n", "g", " ", "f", "o", "r", " ", "N", "D", " ", "t", "o", " ",
      "c", "o", "m", "p", "l", "e", "t", "e", " ", "p", "r", "o", "f", "i", "l", "i",
      "n", "g", " ", "t", "h", "e", " ", "a", "p", "p", "l", "i", "c", "a", "t", "i",
      "o", "n", ".">>

\* "Failed to get the results of the profile from ND."
C7_Literal ==
    <<"F", "a", "i", "l", "e", "d", " ", "t", "o", " ", "g", "e", "t", " ", "t", "h",
      "e", " ", "r", "e", "s", "u", "l", "t", "s", " ", "o", "f", " ", "t", "h", "e",
      " ", "p", "r", "o", "f", "i", "l", "e", " ", "f", "r", "o", "m", " ", "N", "D",
      ".">>

\* "Scenario | Status | Time (ms)"
C9_Header ==
    <<"S", "c", "e", "n", "a", "r", "i", "o", " ", "|", " ", "S", "t", "a", "t", "u",
      "s", " ", "|", " ", "T", "i", "m", "e", " ", "(", "m", "s", ")">>

-----------------------------------------------------------------------------
(* Properties of the report *)

C6_Original ==
    \A r \in Runs :
        TimedOut(runs[r]) =>
            \A i \in CallsOf(runs[r], "POST") :
                PublishedText(runs[r].calls[i].body) = SpecTimeoutMessage

\* C6, amended: after an upload that succeeded and a wait that timed out the
\* report, and the text published in the comment, is exactly "Timeout while
\* waiting for ND to complete profiling the application.", with no table
\* header, separator or row in it.
C6_TimeoutReport ==
    \A r \in Runs :
        TimedOut(runs[r]) =>
            /\ UploadSucceeded(runs[r])
            /\ runs[r].comment_string = C6_Literal
            /\ ~ContainsText(runs[r].comment_string, C9_Header)
            /\ ~ContainsText(runs[r].comment_string, RowTerminator)
            /\ \A i \in CallsOf(runs[r], "POST") :
                  PublishedText(runs[r].calls[i].body) = C6_Literal

\* A run whose wait timed out has posted its comment.
C6_Witness ==
    \E r \in Runs :
        /\ TimedOut(runs[r])
        /\ runs[r].pc = "Done"
        /\ HasCall(runs[r], "POST")

\* C7 as stated: after a failed fetch the published text is
\* "Failed to retrieve profiling results.".
C7_Original ==
    \A r \in Runs :
        FetchFailed(runs[r]) =>
            \A i \in CallsOf(runs[r], "POST") :
                PublishedText(runs[r].calls[i].body) = SpecFetchFailedMessage

\* C7, amended: after an upload and a wait that succeeded and a fetch that
\* failed the report, and the text published in the comment, is exactly
\* "Failed to get the results of the profile from ND.", with no table header,
\* separator or row in it.
C7_FetchFailureReport ==
    \A r \in Runs :
        FetchFailed(runs[r]) =>
            /\ UploadSucceeded(runs[r]) /\ ~TimedOut(runs[r])
            /\ runs[r].comment_string = C7_Literal
            /\ ~ContainsText(runs[r].comment_string, C9_Header)
            /\ ~ContainsText(runs[r].comment_string, RowTerminator)
            /\ \A i \in CallsOf(runs[r], "POST") :
                  PublishedText(runs[r].calls[i].body) = C7_Literal

\* A run whose fetch failed has posted its comment.
C7_Witness ==
    \E r \in Runs :
        /\ FetchFailed(runs[r])
        /\ runs[r].pc = "Done"
        /\ HasCall(runs[r], "POST")

\* C8: the call before every fetch is a wait that returned Completed; a wait
\* that timed out is followed by no fetch: the run is at the publishing, and
\* its next call, if it has made one, is the comment POST.
C8_FetchOnlyAfterCompletedWait ==
    \A r \in Runs :
        LET calls == runs[r].calls
        IN  \A i \in DOMAIN calls :
                /\ calls[i].op = "fetch" =>
                      (i > 1 /\ calls[i - 1].op = "wait" /\ calls[i - 1].ok)
                /\ (calls[i].op = "wait" /\ ~calls[i].ok) =>
                      /\ ~HasCall(runs[r], "fetch")
                      /\ runs[r].pc \in {"Reported", "Done"}
                      /\ i < Len(calls) => (i + 1 = Len(calls) /\ calls[i + 1].op = "POST")

\* A run is at the publishing right after a wait that timed out: the wait is
\* its last call and it has not fetched.
C8_Witness ==
    \E r \in Runs :
        /\ runs[r].pc = "Reported"
        /\ runs[r].calls[Len(runs[r].calls)].op = "wait"
        /\ ~runs[r].calls[Len(runs[r].calls)].ok
        /\ ~HasCall(runs[r], "fetch")

\* C9: after a fetch that returned N outcomes the report, and the text
\* published in the comment, is N+2 lines: the header "Scenario | Status |
\* Time (ms)", the separator, and the row "name | status | timeMs" of each
\* outcome, in the order of the result.
C9_TableOfResult ==
    \A r \in Runs :
        \A i \in CallsOf(runs[r], "fetch") :
            runs[r].calls[i].result.some =>
                LET profiles == runs[r].calls[i].result.profiles
                    texts == {runs[r].comment_string}
                                 \cup {PublishedText(runs[r].calls[j].body) :
                                          j \in CallsOf(runs[r], "POST")}
                IN  \A text \in texts :
                        LET lines == SplitLines(text)
                        IN  /\ Len(lines) = Len(profiles) + 2
                            /\ lines[1] = C9_Header
                            /\ lines[2] = SeparatorLine
                            /\ \A k \in 1..Len(profiles) :
                                  lines[k + 2] = RowLine(profiles[k])

\* A run has published the table of a result of two different outcomes.
C9_Witness ==
    \E r \in Runs :
        /\ runs[r].pc = "Done"
        /\ HasCall(runs[r], "POST")
        /\ \E i \in CallsOf(runs[r], "fetch") :
              /\ runs[r].calls[i].result.some
              /\ Len(runs[r].calls[i].result.profiles) = 2
              /\ runs[r].calls[i].result.profiles[1] # runs[r].calls[i].result.profiles[2]

\* C10 as stated: every request handle_post has finished with is answered "Success".
C10_AlwaysSuccess ==
    \A i \in 1..Len(responses) : responses[i] = "Success"

-----------------------------------------------------------------------------
(* Vocabulary of the extraction properties *)

\* The value at a path of keys of a JSON document.
RECURSIVE ValueAt(_, _)
ValueAt(v, path) ==
    IF path = <<>> THEN v
    ELSE IF v.t = "object" /\ Head(path) \in DOMAIN v.f
    THEN ValueAt(v.f[Head(path)], Tail(path))
    ELSE [t |-> "null"]

\* issue.pull_request.url, issue.comments_url, comment.body, comment.user.login
EventFields ==
    {<<"issue", "pull_request", "url">>, <<"issue", "comments_url">>,
     <<"comment", "body">>, <<"comment", "user", "login">>}

\* Some of the four fields of the event is missing or is no string.
LacksField(notification) ==
    \E path \in EventFields : ValueAt(notification, path).t # "string"

\* The run has been spawned.
Spawned(run) == run.pc # "NotSpawned"

\* The five fields of a PullRequestComment.
TriggerFields(pr) == {pr.url, pr.clone_url, pr.head_sha, pr.comment, pr.commenter}

-----------------------------------------------------------------------------
(* Properties of the extraction and of the allow-list *)

\* C11: a run whose event lacks one of the four fields (missing, or not a
\* string) makes no outbound call at all, the metadata GET included: it is
\* about to fail or has been aborted at the extraction, with no build, upload
\* or comment.
C11_MalformedEventNoCall ==
    \A r \in Runs :
        (Spawned(runs[r]) /\ LacksField(runs[r].notification)) =>
            /\ NoCall(runs[r])
            /\ \/ runs[r].pc = "Received"
               \/ runs[r].pc = "Aborted" /\ runs[r].from = "Received"
            /\ ~runs[r].pull_request.ok

\* A run whose event has the three other fields as strings but a login that
\* is no string has been aborted without a call.
C11_Witness ==
    \E r \in Runs :
        /\ runs[r].pc = "Aborted"
        /\ NoCall(runs[r])
        /\ \A path \in EventFields \ {<<"comment", "user", "login">>} :
              ValueAt(runs[r].notification, path).t = "string"
        /\ ValueAt(runs[r].notification, <<"comment", "user", "login">>).t = "array"

\* The JSON value at a path of the metadata response, null when the response
\* did not arrive or is no JSON.
ResponseValue(response, path) ==
    IF response.get = "ok" /\ response.text = "ok" /\ IsJsonText(response.body)
    THEN ValueAt(response.body.json, path)
    ELSE [t |-> "null"]

\* C12 as stated: the five fields of every PullRequestComment that extraction
\* produces are non-empty strings.
C12_Original ==
    \A r \in Runs :
        runs[r].pull_request.ok => \A field \in TriggerFields(runs[r].pull_request) :
                                      field # <<>>

\* C12, amended: extraction produces a PullRequestComment exactly when the
\* four fields of the event, and head.sha and head.repo.clone_url of the
\* metadata response, are JSON strings, of any length, the empty string
\* included; the five fields are then those strings (url is the event's
\* issue.comments_url).  When one of them is absent or no string, no
\* PullRequestComment is produced and the run is aborted.
C12_TriggerFieldsAreStrings ==
    [][\A r \in Runs : \A response \in MetadataResponses :
          MetadataResponse(r, response) =>
              LET event == runs[r].notification
                  pr == runs'[r].pull_request
                  sha == ResponseValue(response, <<"head", "sha">>)
                  clone == ResponseValue(response, <<"head", "repo", "clone_url">>)
              IN  /\ pr.ok <=> (/\ ~LacksField(event)
                                /\ sha.t = "string"
                                /\ clone.t = "string")
                  /\ pr.ok =>
                        /\ pr.url = ValueAt(event, <<"issue", "comments_url">>).s
                        /\ pr.comment = ValueAt(event, <<"comment", "body">>).s
                        /\ pr.commenter = ValueAt(event, <<"comment", "user", "login">>).s
                        /\ pr.head_sha = sha.s
                        /\ pr.clone_url = clone.s
                  /\ ~pr.ok => (runs'[r].pc = "Aborted" /\ runs'[r].from = "Received")]_vars

\* Extraction has produced a PullRequestComment whose commenter is the empty
\* string.
C12_Witness ==
    \E r \in Runs :
        /\ runs[r].pc = "Extracted"
        /\ runs[r].pull_request.ok
        /\ runs[r].pull_request.commenter = <<>>

\* The config file exists and holds a JSON array of strings.
IsArrayOfStrings(file) ==
    /\ file.exists
    /\ IsJsonText(file.content)
    /\ file.content.json.t = "array"
    /\ \A i \in 1..Len(file.content.json.a) : file.content.json.a[i].t = "string"

\* C13: when ./profilers.json is missing or does not hold a JSON array of
\* strings, the allow-list of the server is empty and no run, whatever its
\* commenter and comment, makes a build, an upload or a comment POST: every
\* run stops at the authorization at the latest.
C13_DenyAllWithoutConfig ==
    ~IsArrayOfStrings(profilers_file) =>
        /\ profilers = <<>>
        /\ \A r \in Runs :
              /\ NoPipelineCall(runs[r])
              /\ ~PassedAuthorization(runs[r])

\* With a file that holds the array ["Alice", 1], a run of "ALICE" with the
\* comment "profile" has been turned away at the authorization.
C13_Witness ==
    /\ profilers_file.exists
    /\ IsJsonText(profilers_file.content)
    /\ profilers_file.content.json.t = "array"
    /\ ~IsArrayOfStrings(profilers_file)
    /\ \E r \in Runs :
          /\ runs[r].pc = "Aborted" /\ runs[r].from = "Extracted"
          /\ runs[r].pull_request.comment = ProfileKeyword
          /\ runs[r].pull_request.commenter = Str_ALICE

\* C14: a run that has ended, on whatever path, has left no workspace
\* directory behind: the directory it created, if it created one, has been
\* removed; and the directory is there as long as the run goes on behind its
\* creation.
C14_WorkspaceDestroyedAtEnd ==
    \A r \in Runs :
        /\ Ended(runs[r]) => runs[r].temp_dir.state # "exists"
        /\ (Ended(runs[r]) /\ (HasCall(runs[r], "build") \/ runs[r].pc = "Done"))
               => runs[r].temp_dir.state = "removed"
        /\ runs[r].pc \in {"Workspace", "Built", "Uploaded", "Polled", "Reported"}
               => runs[r].temp_dir.state = "exists"

\* A run whose directory was created has ended at the failure to set its
\* permissions, and the directory is gone.
C14_Witness ==
    \E r \in Runs :
        /\ runs[r].pc = "Aborted" /\ runs[r].from = "Authorized"
        /\ runs[r].temp_dir.state = "removed"

-----------------------------------------------------------------------------
(* Properties of the build and of the workspace *)

\* C16 as stated: whatever the result of the build, a run that has invoked
\* the build goes on to the upload: it is about to upload, or has called
\* upload with the artifact path inside its workspace.
C16_BuildNeverStops ==
    \A r \in Runs :
        HasCall(runs[r], "build") =>
            \/ runs[r].pc = "Built"
            \/ \E i \in CallsOf(runs[r], "upload") :
                  runs[r].calls[i].path = runs[r].temp_dir.path \o ArtifactSuffix

-----------------------------------------------------------------------------
(* Properties of the order of the stages *)

\* The place of a call in the pipeline.
StageRank(op) ==
    CASE op = "GET" -> 1
      [] op = "build" -> 2
      [] op = "upload" -> 3
      [] op = "wait" -> 4
      [] op = "fetch" -> 5
      [] op = "POST" -> 6

\* C19: the calls of a run are in the order GET, build, upload, wait, fetch,
\* POST, each at most once (so nothing is retried, a failed POST included);
\* the build comes right after the GET, the wait right after an upload that
\* succeeded; and a run that has ended takes no further step.
C19_StagesInOrderOnce ==
    /\ [](\A r \in Runs :
             LET calls == runs[r].calls
             IN  /\ \A i, j \in DOMAIN calls :
                       i < j => StageRank(calls[i].op) < StageRank(calls[j].op)
                 /\ \A i \in DOMAIN calls :
                       /\ calls[i].op = "build" => (i = 2 /\ calls[1].op = "GET")
                       /\ calls[i].op = "upload" => calls[i - 1].op = "build"
                       /\ calls[i].op = "wait" =>
                             (calls[i - 1].op = "upload" /\ calls[i - 1].ok)
                 /\ runs[r].pc \in {"Authorized", "Workspace"} =>
                       (Len(calls) = 1 /\ calls[1].op = "GET"))
    /\ [][\A r \in Runs : Ended(runs[r]) => runs'[r] = runs[r]]_vars

\* A run has gone through all six calls and ended with a POST that failed.
C19_Witness ==
    \E r \in Runs :
        /\ runs[r].pc = "Done"
        /\ [i \in DOMAIN runs[r].calls |-> runs[r].calls[i].op]
               = <<"GET", "build", "upload", "wait", "fetch", "POST">>
        /\ ~runs[r].calls[6].ok

\* C20: a run whose event has its four fields as strings makes exactly one
\* GET, its first call, to the event's issue.pull_request.url, as soon as it
\* has left Received, whatever the comment and the commenter; a run turned
\* away at the authorization has made no other call.
C20_MetadataGetBeforeAuthorization ==
    \A r \in Runs :
        (Spawned(runs[r]) /\ ~LacksField(runs[r].notification)) =>
            /\ runs[r].pc = "Received" => NoCall(runs[r])
            /\ runs[r].pc # "Received" =>
                  /\ CallsOf(runs[r], "GET") = {1}
                  /\ runs[r].calls[1].to
                         = ValueAt(runs[r].notification, <<"issue", "pull_request", "url">>).s
            /\ (runs[r].pc = "Aborted" /\ runs[r].from = "Extracted") =>
                  Len(runs[r].calls) = 1

\* A run whose comment is not the command and whose commenter is not on the
\* allow-list has been turned away with the GET as its only call.
C20_Witness ==
    \E r \in Runs :
        /\ runs[r].pc = "Aborted" /\ runs[r].from = "Extracted"
        /\ runs[r].pull_request.comment # ProfileKeyword
        /\ ~OnAllowList(runs[r].pull_request.commenter)
        /\ runs[r].calls = <<[op |-> "GET", to |-> Str_U]>>

-----------------------------------------------------------------------------
(* Properties of concurrent runs *)

\* The run is inside take_action, at one of its stages.
Running(run) == Spawned(run) /\ ~Ended(run)

\* The step of thread r at its stage can be taken, with every outcome the
\* stage can have.
CanProceed(r) ==
    /\ runs[r].pc = "Received" => ENABLED ExtractFields(r)
    /\ runs[r].pc = "Fetching" =>
          \A response \in ConcResponses : ENABLED MetadataResponse(r, response)
    /\ runs[r].pc = "Extracted" => ENABLED Authorize(r)
    /\ runs[r].pc = "Authorized" => ENABLED MakeWorkspace(r, "ok")
    /\ runs[r].pc = "Workspace" => ENABLED Build(r)
    /\ runs[r].pc = "Built" => \A ok \in BOOLEAN : ENABLED Upload(r, ok)
    /\ runs[r].pc = "Uploaded" => \A ok \in BOOLEAN : ENABLED WaitForProfile(r, ok)
    /\ runs[r].pc = "Polled" =>
          \A result \in FetchResults : ENABLED GetProfileResult(r, result)
    /\ runs[r].pc = "Reported" => \A ok \in BOOLEAN : ENABLED PostComment(r, ok)

\* C15: in every state, whatever stages the other runs are in, every running
\* run can take the step of its stage, up to the comment POST that ends it in
\* Done, and handle_post can receive and acknowledge a new request while
\* runs are going on; a step of one run changes no other run, and the
\* acknowledgment of a request does not change the runs spawned before.
C15_RunsIndependent ==
    /\ [](/\ \A r \in Runs : Running(runs[r]) => CanProceed(r)
          /\ Len(requests) < Len(runs) => \A body \in ConcBodies : ENABLED HandlePost(body))
    /\ [][\A r \in Runs :
             runs'[r] # runs[r] =>
                 /\ \A q \in Runs \ {r} : runs'[q] = runs[q]
                 /\ Len(responses') > Len(responses) =>
                       (runs[r].pc = "NotSpawned" /\ responses'[Len(responses')] = "Success")]_vars

\* A run is blocked in the wait for the profile, and a run spawned for a
\* later request has gone through all six calls to Done.
C15_Witness ==
    \E r, q \in Runs :
        /\ runs[r].pc = "Uploaded"
        /\ runs[q].pc = "Done"
        /\ Len(runs[q].calls) = 6
        /\ r < q

====
